---- MODULE Spec2Model ----
\* Model of src/src/main.rs: TokioRwLockTrace, an instrumented wrapper around
\* tokio::sync::RwLock, its two timed guards and the call-site recorder.
\*
\* A run is the shape of tests::test_spawn generalised: one shared lock
\* `Arc::new(RwLock::new(5))`, and a number of spawned tasks, each owning one
\* handle to a lock: a view built with TokioRwLockTrace::from(rw_lock.clone()),
\* a view built with TokioRwLockTrace::new(5) (a lock of its own), or a plain
\* clone of the Arc (the underlying lock used directly).  A task runs a
\* sequence of scopes; in each it acquires a shared or an exclusive guard,
\* uses the value and leaves the scope (normally, by an early return, by a
\* panic, or by being aborted at an await point).
EXTENDS Integers, Sequences, FiniteSets, TLC

\* ---------------------------------------------------------------- bounds
NumTasks == 2
MaxAcquires == 2
MaxClock == 2

\* ------------------------------------------------------- program constants
\* tests::test_spawn: Arc::new(RwLock::new(5))
InitValue == 5
\* tests::test_spawn: the lines of its calls of read() and of write()
SiteRead == 164
SiteWrite == 169
\* Location::caller() inside log_call_info!, expanded in read() / write(),
\* neither of which is #[track_caller]: the location of the macro invocation
\* in the body of read() / of write()
LocRead == 40
LocWrite == 49
\* print_info() is #[track_caller]: the location of its call in each Drop impl
LocReadDrop == 86
LocWriteDrop == 113

Tasks == 1..NumTasks
NoTask == 0
\* Lock identities (the allocation an Arc points to): SharedLock is rw_lock of
\* the test; lock t is the one TokioRwLockTrace::new creates for task t; the
\* last one is never allocated by the program.
SharedLock == 0
Locks == 0..(NumTasks + 1)
Kinds == {"read", "write"}
HandleKinds == {"from", "new", "raw"}

VARIABLES
    handle,     \* handle[t]: how task t's handle to a lock was built
    inner,      \* inner[t]: TokioRwLockTrace.inner / the Arc: the lock it points to
    alive,      \* alive[t]: task t still owns its handle (Arc strong count share)
    origAlive,  \* the original rw_lock Arc of the spawning function is not yet dropped
    pc,         \* pc[t]: position of task t
    kind,       \* kind[t]: "read" | "write", the operation of the current scope
    via,        \* via[t]: "trace" (TokioRwLockTrace::read/write) | "raw" (the RwLock itself)
    exit,       \* exit[t]: how the current scope ends / how the task ended
    nAcq,       \* acquisitions started so far, by all tasks
    startTime,  \* startTime[t]: Logging*Guard.start_time of the live timed guard
    tmp,        \* tmp[t]: the value loaded by `*write_guard += 1`
    observed,   \* observed[t]: the value last read through a guard's deref
    value,      \* value[l]: the T protected by lock l
    readers,    \* readers[l]: tasks holding an RwLockReadGuard of lock l
    writer,     \* writer[l]: task holding the RwLockWriteGuard of lock l, or NoTask
    queue,      \* queue[l]: FIFO of tasks suspended in l.read().await / l.write().await
    now,        \* the monotonic clock (tokio::time::Instant::now())
    trace,      \* the tail of stdout: the last line written (<<>> before the first)
    pending,    \* pending[t][k]: attempt records of t's read()/write() (k) so far,
                \*   minus the timed guards of kind k constructed for t so far
    owed,       \* owed[t][k]: timed guards of kind k constructed for t so far,
                \*   minus the "<Read|Write> lock released" lines t printed so far
    unsited,    \* unsited[t][k]: release lines t printed so far, minus the
                \*   print_info lines of t's guard destructors so far
    stores,     \* stores[l]: completed `*write_guard += 1` on lock l
    ghost       \* ghost[t]: bookkeeping of the current attempt (see NoGhost)

vars == <<handle, inner, alive, origAlive, pc, kind, via, exit, nAcq, startTime,
          tmp, observed, value, readers, writer, queue, now, trace, pending,
          owed, unsited, stores, ghost>>

taskVars == <<pc, kind, via, exit, nAcq, startTime, tmp, observed>>
lockVars == <<value, readers, writer, queue>>
ownVars == <<handle, inner, alive, origAlive>>
logVars == <<trace, pending, owed, unsited>>

\* ------------------------------------------------------------ constructors
\* Mutant of From: the view gets a lock of its own, a copy of the one given.
FromCopy(arc) == arc + NumTasks + 1

\* TokioRwLockTrace::from(inner): the view keeps the Arc it is given.
From(arc) == arc

\* TokioRwLockTrace::new(value): a fresh RwLock in a fresh Arc.
New(t) == t

HandleRank(h) == CASE h = "from" -> 1 [] h = "raw" -> 2 [] OTHER -> 3

\* The handle task t is spawned with.
MakeHandle(h, t) ==
    CASE h = "from" -> From(SharedLock)
      [] h = "new"  -> New(t)
      [] OTHER      -> SharedLock

\* Arc::strong_count of lock l: the handles pointing to it that are not dropped.
StrongCount(l) ==
    Cardinality({t \in Tasks : alive[t] /\ inner[t] = l})
    + (IF l = SharedLock /\ origAlive THEN 1 ELSE 0)

\* ---------------------------------------------------------- underlying lock
\* tokio::sync::RwLock: a shared token is compatible with other shared tokens,
\* an exclusive token with nothing.
Compatible(l, k) ==
    IF k = "read" THEN writer[l] = NoTask
    ELSE writer[l] = NoTask /\ readers[l] = {}

\* Mutant of InnerOp: read() awaits self.inner.write() as write() does.
InnerOpExclusive(k) == "write"

\* Mutant of InnerOp: write() awaits self.inner.read() as read() does.
InnerOpShared(k) == "read"

\* The operation of the underlying lock each wrapper method awaits:
\* read() awaits self.inner.read(), write() awaits self.inner.write().
InnerOp(k) == k

\* The token is handed to task t.
Hold(l, t, k) ==
    IF k = "read"
    THEN /\ readers' = [readers EXCEPT ![l] = @ \cup {t}]
         /\ UNCHANGED writer
    ELSE /\ writer' = [writer EXCEPT ![l] = t]
         /\ UNCHANGED readers

\* Dropping the RwLockReadGuard / RwLockWriteGuard held by t.
Unhold(l, t) ==
    /\ readers' = [readers EXCEPT ![l] = @ \ {t}]
    /\ writer' = [writer EXCEPT ![l] = IF @ = t THEN NoTask ELSE @]

HoldsToken(t) == \E l \in Locks : t \in readers[l] \/ writer[l] = t

\* The kind of token task t holds on lock l ("none" when it holds none).
TokenKind(l, t) ==
    IF writer[l] = t THEN "write" ELSE IF t \in readers[l] THEN "read" ELSE "none"

\* --------------------------------------------------------------- recorder
\* println! appends a line to stdout; the model keeps its last line.
Emit(rec) == trace' = <<rec>>

Plus(f, t, k, d) == [f EXCEPT ![t][k] = @ + d]

\* log_call_info!(): the "Function ... called at file:line on thread" line.
CallInfo(k) ==
    [line |-> "called", loc |-> IF k = "read" THEN LocRead ELSE LocWrite, dur |-> 0]

\* print_info(): the same line, with the #[track_caller] location.
PrintInfo(k) ==
    [line |-> "called", loc |-> IF k = "read" THEN LocReadDrop ELSE LocWriteDrop,
     dur |-> 0]

\* Mutant of ReleaseLine: the Drop of the write guard was copied from the read
\* guard with its text unchanged.
ReleaseLineCopied(k, d) == [line |-> "ReadReleased", loc |-> 0, dur |-> d]

\* "Read lock released. Duration: .." / "Write lock released. Duration: .."
ReleaseLine(k, d) ==
    [line |-> IF k = "read" THEN "ReadReleased" ELSE "WriteReleased",
     loc |-> 0, dur |-> d]

\* Instant::elapsed(): the clock now minus the instant.
Elapsed(start) == now - start

\* Bookkeeping of one attempt: the clock at the attempt record, at the grant of
\* the token and at the return of the guard to the caller.
NoGhost == [attemptAt |-> 0, grantAt |-> 0, heldAt |-> 0]

\* ------------------------------------------------------------------- Init
Init ==
    /\ handle \in [Tasks -> HandleKinds]
    \* tasks are interchangeable: one representative of each assignment
    /\ \A t \in Tasks : t + 1 \in Tasks => HandleRank(handle[t]) <= HandleRank(handle[t + 1])
    /\ inner = [t \in Tasks |-> MakeHandle(handle[t], t)]
    /\ alive = [t \in Tasks |-> TRUE]
    /\ origAlive = TRUE
    /\ pc = [t \in Tasks |-> "idle"]
    /\ kind = [t \in Tasks |-> "read"]
    /\ via = [t \in Tasks |-> "raw"]
    /\ exit = [t \in Tasks |-> "none"]
    /\ nAcq = 0
    /\ startTime = [t \in Tasks |-> 0]
    /\ tmp = [t \in Tasks |-> 0]
    /\ observed = [t \in Tasks |-> 0]
    /\ value = [l \in Locks |-> InitValue]
    /\ readers = [l \in Locks |-> {}]
    /\ writer = [l \in Locks |-> NoTask]
    /\ queue = [l \in Locks |-> <<>>]
    /\ now = 0
    /\ trace = <<>>
    /\ pending = [t \in Tasks |-> [k \in Kinds |-> 0]]
    /\ owed = [t \in Tasks |-> [k \in Kinds |-> 0]]
    /\ unsited = [t \in Tasks |-> [k \in Kinds |-> 0]]
    /\ stores = [l \in Locks |-> 0]
    /\ ghost = [t \in Tasks |-> NoGhost]

\* ---------------------------------------------------------------- actions
Instrumented(t) == handle[t] \in {"from", "new"}

\* The operation task t asks of the underlying lock.
ReqOp(t) == IF via[t] = "trace" THEN InnerOp(kind[t]) ELSE kind[t]

\* Mutant of Attempt: the call goes to the underlying lock without the
\* log_call_info!() line.
AttemptUnlogged(t, k) ==
    /\ pc[t] = "idle" /\ Instrumented(t) /\ nAcq < MaxAcquires
    /\ pc' = [pc EXCEPT ![t] = "logged"]
    /\ kind' = [kind EXCEPT ![t] = k]
    /\ via' = [via EXCEPT ![t] = "trace"]
    /\ nAcq' = nAcq + 1
    /\ ghost' = [ghost EXCEPT ![t] = [NoGhost EXCEPT !.attemptAt = now]]
    /\ UNCHANGED <<exit, startTime, tmp, observed, owed, unsited, stores, now,
                   trace, pending>>
    /\ UNCHANGED <<lockVars, ownVars>>

\* TokioRwLockTrace::read / write, line 40 / 49: log_call_info!() emits the
\* acquire-attempt record before the underlying lock is asked.
Attempt(t, k) ==
    /\ pc[t] = "idle" /\ Instrumented(t) /\ nAcq < MaxAcquires
    /\ pc' = [pc EXCEPT ![t] = "logged"]
    /\ kind' = [kind EXCEPT ![t] = k]
    /\ via' = [via EXCEPT ![t] = "trace"]
    /\ nAcq' = nAcq + 1
    /\ Emit(CallInfo(k))
    /\ pending' = Plus(pending, t, k, 1)
    /\ ghost' = [ghost EXCEPT ![t] = [NoGhost EXCEPT !.attemptAt = now]]
    /\ UNCHANGED <<exit, startTime, tmp, observed, owed, unsited, stores, now>>
    /\ UNCHANGED <<lockVars, ownVars>>

\* Mutant of Poll: the wrapper hands out one guard at a time, so a read() is
\* made to wait while another shared token is out.
PollSerialised(t) ==
    /\ pc[t] = "logged"
    /\ LET l == inner[t] IN
       IF queue[l] = <<>> /\ Compatible(l, ReqOp(t)) /\ readers[l] = {}
       THEN /\ Hold(l, t, ReqOp(t))
            /\ pc' = [pc EXCEPT ![t] = "granted"]
            /\ ghost' = [ghost EXCEPT ![t].grantAt = now]
            /\ UNCHANGED queue
       ELSE /\ queue' = [queue EXCEPT ![l] = Append(@, t)]
            /\ pc' = [pc EXCEPT ![t] = "waiting"]
            /\ UNCHANGED <<readers, writer, ghost>>
    /\ UNCHANGED <<kind, via, exit, nAcq, startTime, tmp, observed, value, now,
                   stores>>
    /\ UNCHANGED <<ownVars, logVars>>

\* The first poll of self.inner.read() / self.inner.write() (line 41 / 50):
\* the token is granted at once when nothing is queued and it is compatible
\* with the tokens out; otherwise the task joins the FIFO queue and suspends.
Poll(t) ==
    /\ pc[t] = "logged"
    /\ LET l == inner[t] IN
       IF queue[l] = <<>> /\ Compatible(l, ReqOp(t))
       THEN /\ Hold(l, t, ReqOp(t))
            /\ pc' = [pc EXCEPT ![t] = "granted"]
            /\ ghost' = [ghost EXCEPT ![t].grantAt = now]
            /\ UNCHANGED queue
       ELSE /\ queue' = [queue EXCEPT ![l] = Append(@, t)]
            /\ pc' = [pc EXCEPT ![t] = "waiting"]
            /\ UNCHANGED <<readers, writer, ghost>>
    /\ UNCHANGED <<kind, via, exit, nAcq, startTime, tmp, observed, value, now,
                   stores>>
    /\ UNCHANGED <<ownVars, logVars>>

\* Mutant of RawAcquire: the wrapper's Deref leads to its own read() /
\* write(), so an acquisition through it prints the attempt record.
RawAcquireLogged(t, k) ==
    /\ pc[t] = "idle" /\ nAcq < MaxAcquires
    /\ kind' = [kind EXCEPT ![t] = k]
    /\ via' = [via EXCEPT ![t] = "raw"]
    /\ nAcq' = nAcq + 1
    /\ LET l == inner[t] IN
       IF queue[l] = <<>> /\ Compatible(l, k)
       THEN /\ Hold(l, t, k)
            /\ pc' = [pc EXCEPT ![t] = "holding"]
            /\ ghost' = [ghost EXCEPT ![t] =
                           [NoGhost EXCEPT !.attemptAt = now, !.grantAt = now,
                                           !.heldAt = now]]
            /\ UNCHANGED queue
       ELSE /\ queue' = [queue EXCEPT ![l] = Append(@, t)]
            /\ pc' = [pc EXCEPT ![t] = "waiting"]
            /\ ghost' = [ghost EXCEPT ![t] = [NoGhost EXCEPT !.attemptAt = now]]
            /\ UNCHANGED <<readers, writer>>
    /\ Emit(CallInfo(k))
    /\ UNCHANGED <<exit, startTime, tmp, observed, value, now, stores>>
    /\ UNCHANGED <<ownVars, pending, owed, unsited>>

\* An acquisition on the underlying lock itself: through a plain Arc<RwLock>,
\* or through the wrapper's Deref (lines 118-124).  Nothing is recorded.
RawAcquire(t, k) ==
    /\ pc[t] = "idle" /\ nAcq < MaxAcquires
    /\ kind' = [kind EXCEPT ![t] = k]
    /\ via' = [via EXCEPT ![t] = "raw"]
    /\ nAcq' = nAcq + 1
    /\ LET l == inner[t] IN
       IF queue[l] = <<>> /\ Compatible(l, k)
       THEN /\ Hold(l, t, k)
            /\ pc' = [pc EXCEPT ![t] = "holding"]
            /\ ghost' = [ghost EXCEPT ![t] =
                           [NoGhost EXCEPT !.attemptAt = now, !.grantAt = now,
                                           !.heldAt = now]]
            /\ UNCHANGED queue
       ELSE /\ queue' = [queue EXCEPT ![l] = Append(@, t)]
            /\ pc' = [pc EXCEPT ![t] = "waiting"]
            /\ ghost' = [ghost EXCEPT ![t] = [NoGhost EXCEPT !.attemptAt = now]]
            /\ UNCHANGED <<readers, writer>>
    /\ UNCHANGED <<exit, startTime, tmp, observed, value, now, stores>>
    /\ UNCHANGED <<ownVars, logVars>>

\* The underlying lock grants the token to the task at the head of the queue
\* and the task resumes from its .await.
Wake(t) ==
    /\ pc[t] = "waiting"
    /\ LET l == inner[t] IN
       /\ queue[l] # <<>> /\ Head(queue[l]) = t
       /\ Compatible(l, ReqOp(t))
       /\ Hold(l, t, ReqOp(t))
       /\ queue' = [queue EXCEPT ![l] = Tail(@)]
    /\ pc' = [pc EXCEPT ![t] = IF via[t] = "trace" THEN "granted" ELSE "holding"]
    /\ ghost' = [ghost EXCEPT ![t].grantAt = now,
                              ![t].heldAt = IF via[t] = "trace" THEN 0 ELSE now]
    /\ UNCHANGED <<kind, via, exit, nAcq, startTime, tmp, observed, value, now,
                   stores>>
    /\ UNCHANGED <<ownVars, logVars>>

\* Mutant of Stamp: the instant is taken where the attempt is logged, before
\* the await.
StampAtAttempt(t) == ghost[t].attemptAt

\* `start_time: Instant::now()` (line 44 / 53), evaluated once the await of the
\* underlying lock has returned.
Stamp(t) == now

\* Lines 42-45 / 51-54: the granted token is wrapped in the timed guard, which
\* is stamped with Instant::now() and returned to the caller.
Construct(t) ==
    /\ pc[t] = "granted"
    /\ pc' = [pc EXCEPT ![t] = "holding"]
    /\ startTime' = [startTime EXCEPT ![t] = Stamp(t)]
    /\ pending' = Plus(pending, t, kind[t], -1)
    /\ owed' = Plus(owed, t, kind[t], 1)
    /\ ghost' = [ghost EXCEPT ![t].heldAt = now]
    /\ UNCHANGED <<kind, via, exit, nAcq, tmp, observed, now, stores, trace,
                   unsited>>
    /\ UNCHANGED <<lockVars, ownVars>>

\* Mutant of ReadValue: the guard hands out the value the lock was built with.
ReadValueStale(t) ==
    /\ pc[t] = "holding" /\ kind[t] = "read"
    /\ observed' = [observed EXCEPT ![t] = InitValue]
    /\ pc' = [pc EXCEPT ![t] = "used"]
    /\ UNCHANGED <<kind, via, exit, nAcq, startTime, tmp, now, stores, ghost>>
    /\ UNCHANGED <<lockVars, ownVars, logVars>>

\* `*read_guard` (Deref of the guard, lines 74-80; test line 165).
ReadValue(t) ==
    /\ pc[t] = "holding" /\ kind[t] = "read"
    /\ observed' = [observed EXCEPT ![t] = value[inner[t]]]
    /\ pc' = [pc EXCEPT ![t] = "used"]
    /\ UNCHANGED <<kind, via, exit, nAcq, startTime, tmp, now, stores, ghost>>
    /\ UNCHANGED <<lockVars, ownVars, logVars>>

\* `*write_guard += 1` (DerefMut of the guard, lines 103-107; test line 171):
\* the load ...
Load(t) ==
    /\ pc[t] = "holding" /\ kind[t] = "write"
    /\ tmp' = [tmp EXCEPT ![t] = value[inner[t]]]
    /\ pc' = [pc EXCEPT ![t] = "loaded"]
    /\ UNCHANGED <<kind, via, exit, nAcq, startTime, observed, now, stores, ghost>>
    /\ UNCHANGED <<lockVars, ownVars, logVars>>

\* ... and the store of the incremented value; line 172 then reads it back.
Store(t) ==
    /\ pc[t] = "loaded"
    /\ value' = [value EXCEPT ![inner[t]] = tmp[t] + 1]
    /\ stores' = [stores EXCEPT ![inner[t]] = @ + 1]
    /\ observed' = [observed EXCEPT ![t] = tmp[t] + 1]
    /\ tmp' = [tmp EXCEPT ![t] = 0]
    /\ pc' = [pc EXCEPT ![t] = "used"]
    /\ UNCHANGED <<kind, via, exit, nAcq, startTime, now, ghost, readers, writer,
                   queue>>
    /\ UNCHANGED <<ownVars, logVars>>

\* Every way a scope that holds a guard can end.  Rust runs the guard's
\* destructor on each of them.
ExitPaths == {"normal", "return", "panic", "abort"}

\* Where in its scope a holder can be when it leaves it by path e: the end of
\* the scope and a `return` come after the use of the value, a panic can
\* strike anywhere, an abort of the task (JoinHandle::abort) takes effect at
\* an await point (test line 170, before the value is touched).
CanLeave(t, e) ==
    CASE e \in {"normal", "return"} -> pc[t] = "used"
      [] e = "panic"                -> pc[t] \in {"holding", "used"}
      [] OTHER                      -> pc[t] = "holding"

\* Mutant of RunsDrop: the release is a call at the end of the scope, which an
\* unwinding panic skips.
RunsDropNotOnUnwind(e) == e # "panic"

\* Whether the destructor of the guard runs when the scope ends by path e
\* (drop glue: on the normal path, on return, on unwinding, on the drop of an
\* aborted future).
RunsDrop(e) == TRUE

\* The position of a task whose scope ended by path e.
After(e) == IF e = "normal" THEN "idle" ELSE "done"

\* What the JoinHandle of a task that ended by path e reports.
JoinResult(e) ==
    CASE e \in {"normal", "return"} -> "ok"
      [] e = "panic"                -> "panic"
      [] OTHER                      -> "cancelled"

\* The task's scope is over: its bookkeeping of the scope goes, and its handle
\* with it when the task itself ends.
EndScope(t, e) ==
    /\ pc' = [pc EXCEPT ![t] = After(e)]
    /\ exit' = [exit EXCEPT ![t] = IF e = "normal" THEN "none" ELSE JoinResult(e)]
    /\ alive' = [alive EXCEPT ![t] = (e = "normal")]
    /\ kind' = [kind EXCEPT ![t] = "read"]
    /\ via' = [via EXCEPT ![t] = "raw"]
    /\ startTime' = [startTime EXCEPT ![t] = 0]
    /\ observed' = [observed EXCEPT ![t] = 0]
    /\ ghost' = [ghost EXCEPT ![t] = NoGhost]

\* Mutant of DropReleaseLine: the token goes back to the lock before the
\* release line is printed.
DropUnlockFirst(t, e) ==
    /\ via[t] = "trace" /\ CanLeave(t, e)
    /\ pc' = [pc EXCEPT ![t] = "released"]
    /\ exit' = [exit EXCEPT ![t] = e]
    /\ Unhold(inner[t], t)
    /\ Emit(ReleaseLine(kind[t], Elapsed(startTime[t])))
    /\ owed' = Plus(owed, t, kind[t], -1)
    /\ unsited' = Plus(unsited, t, kind[t], 1)
    /\ UNCHANGED <<alive, kind, via, startTime, observed, ghost>>
    /\ UNCHANGED <<handle, inner, origAlive, nAcq, tmp, value, queue, now,
                   pending, stores>>

\* Drop for LoggingRwLockReadGuard / LoggingRwLockWriteGuard, lines 84-85 /
\* 111-112: the scope ends by path e, the destructor computes the elapsed time
\* and prints the release line.
DropReleaseLine(t, e) ==
    /\ via[t] = "trace" /\ CanLeave(t, e)
    /\ IF RunsDrop(e)
       THEN /\ pc' = [pc EXCEPT ![t] = "released"]
            /\ exit' = [exit EXCEPT ![t] = e]
            /\ Emit(ReleaseLine(kind[t], Elapsed(startTime[t])))
            /\ owed' = Plus(owed, t, kind[t], -1)
            /\ unsited' = Plus(unsited, t, kind[t], 1)
            /\ UNCHANGED <<alive, kind, via, startTime, observed, readers, writer,
                           ghost>>
       ELSE /\ EndScope(t, e)
            /\ Unhold(inner[t], t)
            /\ UNCHANGED <<trace, owed, unsited>>
    /\ UNCHANGED <<handle, inner, origAlive, nAcq, tmp, value, queue, now,
                   pending, stores>>

\* Line 86 / 113: print_info() attributes the release.
DropPrintInfo(t) ==
    /\ pc[t] = "released"
    /\ pc' = [pc EXCEPT ![t] = "attributed"]
    /\ Emit(PrintInfo(kind[t]))
    /\ unsited' = Plus(unsited, t, kind[t], -1)
    /\ UNCHANGED <<kind, via, exit, nAcq, startTime, tmp, observed, now, stores,
                   ghost, pending, owed>>
    /\ UNCHANGED <<lockVars, ownVars>>

\* Mutant of DropInnerGuard: the destructor forgets the inner guard
\* (mem::forget), so the token never goes back to the lock.
DropInnerGuardLeaks(t) ==
    /\ pc[t] = "attributed"
    /\ EndScope(t, exit[t])
    /\ UNCHANGED <<handle, inner, origAlive, nAcq, tmp, value, queue, now, stores>>
    /\ UNCHANGED <<readers, writer>>
    /\ UNCHANGED logVars

\* Mutant of DropInnerGuard: a scope that ends by a panic leaves the lock
\* held, as a poisoned lock would be.
DropInnerGuardPoisons(t) ==
    /\ pc[t] = "attributed"
    /\ IF exit[t] = "panic" THEN UNCHANGED <<readers, writer>>
       ELSE Unhold(inner[t], t)
    /\ EndScope(t, exit[t])
    /\ UNCHANGED <<handle, inner, origAlive, nAcq, tmp, value, queue, now, stores>>
    /\ UNCHANGED logVars

\* After the body of drop() the fields of the guard are dropped: the `guard`
\* field (lines 70 / 91) gives the token back to the underlying lock.
DropInnerGuard(t) ==
    /\ pc[t] = "attributed"
    /\ Unhold(inner[t], t)
    /\ EndScope(t, exit[t])
    /\ UNCHANGED <<handle, inner, origAlive, nAcq, tmp, value, queue, now, stores>>
    /\ UNCHANGED logVars

\* The scope of a guard taken on the underlying lock itself ends: the plain
\* RwLockReadGuard / RwLockWriteGuard is dropped.
RawDrop(t, e) ==
    /\ via[t] = "raw" /\ CanLeave(t, e)
    /\ Unhold(inner[t], t)
    /\ EndScope(t, e)
    /\ UNCHANGED <<handle, inner, origAlive, nAcq, tmp, value, queue, now, stores>>
    /\ UNCHANGED logVars

\* Mutant of CancelWaiting: the timing guard is made before the await, so the
\* drop of the aborted future runs its destructor.
CancelWaitingDrops(t) ==
    /\ pc[t] = "waiting"
    /\ queue' = [queue EXCEPT ![inner[t]] = SelectSeq(@, LAMBDA u : u # t)]
    /\ pc' = [pc EXCEPT ![t] = "done"]
    /\ exit' = [exit EXCEPT ![t] = JoinResult("abort")]
    /\ alive' = [alive EXCEPT ![t] = FALSE]
    /\ Emit(ReleaseLine(kind[t], Elapsed(startTime[t])))
    /\ owed' = Plus(owed, t, kind[t], -1)
    /\ unsited' = Plus(unsited, t, kind[t], 1)
    /\ kind' = [kind EXCEPT ![t] = "read"]
    /\ via' = [via EXCEPT ![t] = "raw"]
    /\ ghost' = [ghost EXCEPT ![t] = NoGhost]
    /\ UNCHANGED <<handle, inner, origAlive, nAcq, startTime, tmp, observed, value,
                   readers, writer, now, stores, pending>>

\* The task is aborted while suspended in read().await / write().await: the
\* future is dropped, which takes its waiter out of the lock's queue.
CancelWaiting(t) ==
    /\ pc[t] = "waiting"
    /\ queue' = [queue EXCEPT ![inner[t]] = SelectSeq(@, LAMBDA u : u # t)]
    /\ pc' = [pc EXCEPT ![t] = "done"]
    /\ exit' = [exit EXCEPT ![t] = JoinResult("abort")]
    /\ alive' = [alive EXCEPT ![t] = FALSE]
    /\ kind' = [kind EXCEPT ![t] = "read"]
    /\ via' = [via EXCEPT ![t] = "raw"]
    /\ ghost' = [ghost EXCEPT ![t] = NoGhost]
    /\ UNCHANGED <<handle, inner, origAlive, nAcq, startTime, tmp, observed, value,
                   readers, writer, now, stores>>
    /\ UNCHANGED logVars

\* The task's future completes: what it owns, its handle included, is dropped.
Finish(t) ==
    /\ pc[t] = "idle"
    /\ pc' = [pc EXCEPT ![t] = "done"]
    /\ exit' = [exit EXCEPT ![t] = JoinResult("normal")]
    /\ alive' = [alive EXCEPT ![t] = FALSE]
    /\ UNCHANGED <<handle, inner, origAlive, kind, via, nAcq, startTime, tmp,
                   observed, now, stores, ghost>>
    /\ UNCHANGED <<lockVars, logVars>>

\* The spawning function drops its own rw_lock (the end of test_spawn).
DropOriginal ==
    /\ origAlive
    /\ origAlive' = FALSE
    /\ UNCHANGED <<handle, inner, alive, taskVars, lockVars, logVars, now, stores,
                   ghost>>

\* Mutant of GetMut: the reference is handed out without the ownership test.
GetMutUnchecked(l) == TRUE

\* Arc::get_mut(&mut self.inner): Some only for the sole owner of the lock.
GetMut(l) == StrongCount(l) = 1

\* DerefMut for TokioRwLockTrace, lines 126-130: the sole owner gets
\* &mut RwLock<T>; otherwise expect() panics and the task unwinds.  The call
\* borrows the view mutably, so its owner holds no guard of it.
DerefMut(t) ==
    /\ pc[t] = "idle" /\ Instrumented(t)
    /\ IF GetMut(inner[t])
       THEN /\ pc' = [pc EXCEPT ![t] = "mutref"]
            /\ UNCHANGED <<exit, alive>>
       ELSE /\ pc' = [pc EXCEPT ![t] = "done"]
            /\ exit' = [exit EXCEPT ![t] = JoinResult("panic")]
            /\ alive' = [alive EXCEPT ![t] = FALSE]
    /\ UNCHANGED <<handle, inner, origAlive, kind, via, nAcq, startTime, tmp,
                   observed, now, stores, ghost>>
    /\ UNCHANGED <<lockVars, logVars>>

\* The &mut RwLock<T> obtained from deref_mut goes out of use.
EndMutRef(t) ==
    /\ pc[t] = "mutref"
    /\ pc' = [pc EXCEPT ![t] = "idle"]
    /\ UNCHANGED <<kind, via, exit, nAcq, startTime, tmp, observed, now, stores,
                   ghost>>
    /\ UNCHANGED <<lockVars, ownVars, logVars>>

\* Time passes.
Tick ==
    /\ now < MaxClock
    /\ now' = now + 1
    /\ UNCHANGED <<taskVars, lockVars, ownVars, logVars, stores, ghost>>

Next ==
    \/ \E t \in Tasks, k \in Kinds : Attempt(t, k)
    \/ \E t \in Tasks : Poll(t)
    \/ \E t \in Tasks, k \in Kinds : RawAcquire(t, k)
    \/ \E t \in Tasks : Wake(t)
    \/ \E t \in Tasks : Construct(t)
    \/ \E t \in Tasks : ReadValue(t)
    \/ \E t \in Tasks : Load(t)
    \/ \E t \in Tasks : Store(t)
    \/ \E t \in Tasks, e \in ExitPaths : DropReleaseLine(t, e)
    \/ \E t \in Tasks : DropPrintInfo(t)
    \/ \E t \in Tasks : DropInnerGuard(t)
    \/ \E t \in Tasks, e \in ExitPaths : RawDrop(t, e)
    \/ \E t \in Tasks : CancelWaiting(t)
    \/ \E t \in Tasks : Finish(t)
    \/ DropOriginal
    \/ \E t \in Tasks : DerefMut(t)
    \/ \E t \in Tasks : EndMutRef(t)

\* The lock, the guards and the records, with the clock standing still.
Spec == Init /\ [][Next]_vars

\* The timed guards of views built with from(), in scopes that end normally,
\* with time passing.
InitTime == Init /\ \A t \in Tasks : handle[t] = "from"

NextTime ==
    \/ \E t \in Tasks, k \in Kinds : Attempt(t, k)
    \/ \E t \in Tasks : Poll(t)
    \/ \E t \in Tasks : Wake(t)
    \/ \E t \in Tasks : Construct(t)
    \/ \E t \in Tasks : ReadValue(t)
    \/ \E t \in Tasks : Load(t)
    \/ \E t \in Tasks : Store(t)
    \/ \E t \in Tasks : DropReleaseLine(t, "normal")
    \/ \E t \in Tasks : DropPrintInfo(t)
    \/ \E t \in Tasks : DropInnerGuard(t)
    \/ Tick

SpecTime == InitTime /\ [][NextTime]_vars

\* ------------------------------------------------------- derived notions
\* Task t has a live timed guard (a LoggingRwLockReadGuard when kind[t] is
\* "read", a LoggingRwLockWriteGuard when it is "write").
TimedGuard(t) ==
    via[t] = "trace" /\ pc[t] \in {"holding", "loaded", "used", "released", "attributed"}

\* ... whose destructor has not yet printed its release line.
Undropped(t) == via[t] = "trace" /\ pc[t] \in {"holding", "loaded", "used"}

ReadGuards(l) == {t \in Tasks : TimedGuard(t) /\ inner[t] = l /\ kind[t] = "read"}
WriteGuards(l) == {t \in Tasks : TimedGuard(t) /\ inner[t] = l /\ kind[t] = "write"}

\* Task t takes a step.
Steps(t) == pc'[t] # pc[t]

\* The handles that come from the rw_lock of the spawning function.
SharedHandles == {t \in Tasks : handle[t] \in {"from", "raw"}}

\* ------------------------------------------------------------------ C1
\* C1: every timed guard gets exactly one release line, whichever way its
\* scope ends: at any time, the guards constructed for a task exceed the
\* release lines it printed by exactly the guards it still has whose destructor
\* has not printed yet; a guard that is gone has its one line, never none or two.
C1_ExactlyOneRelease ==
    \A t \in Tasks : \A k \in Kinds :
        owed[t][k] = IF Undropped(t) /\ kind[t] = k THEN 1 ELSE 0

\* A guard is being destroyed by an unwinding panic and has printed its line.
C1_Witness ==
    \E t \in Tasks :
        /\ pc[t] = "attributed" /\ exit[t] = "panic"
        /\ owed[t][kind[t]] = 0 /\ unsited[t][kind[t]] = 0

\* ------------------------------------------------------------------ C2
\* C2: for one lock, at most one LoggingRwLockWriteGuard exists, and none
\* exists together with a LoggingRwLockReadGuard.
C2_MutualExclusion ==
    \A l \in Locks :
        /\ Cardinality(WriteGuards(l)) <= 1
        /\ WriteGuards(l) # {} => ReadGuards(l) = {}

\* A write guard is live while another task waits for the same lock.
C2_Witness ==
    \E t, u \in Tasks :
        /\ t \in WriteGuards(inner[t])
        /\ pc[u] = "waiting" /\ via[u] = "trace" /\ inner[u] = inner[t]

\* ------------------------------------------------------------------ C3
\* C3: no increment made under an exclusive guard is lost: the counter of a
\* lock is its initial value plus the number of increments completed on it,
\* at every moment and so at the end of the run.
C3_NoLostUpdate ==
    \A l \in Locks : value[l] = InitValue + stores[l]

\* Every task incremented the shared counter under a timed write guard.
C3_Witness ==
    /\ \A t \in Tasks : handle[t] = "from"
    /\ stores[SharedLock] = NumTasks
    /\ value[SharedLock] = InitValue + NumTasks

\* ------------------------------------------------------------------ C4
\* C4: a task aborted while suspended in read()/write() gets no guard, prints
\* no release line for that attempt, then or later, and leaves the tokens of
\* the lock as they were.
C4_CancelledAttempt ==
    /\ [][\A t \in Tasks :
            (pc[t] = "waiting" /\ pc'[t] = "done") =>
                /\ readers' = readers /\ writer' = writer /\ value' = value
                /\ owed' = owed /\ unsited' = unsited /\ trace' = trace
                /\ ~TimedGuard(t)']_vars
    /\ [](\A t \in Tasks :
            (pc[t] = "done" /\ \E k \in Kinds : pending[t][k] > 0) =>
                /\ \A k \in Kinds : owed[t][k] = 0 /\ unsited[t][k] = 0
                /\ \A l \in Locks : TokenKind(l, t) = "none")

\* A task was aborted in write().await behind a holder: its attempt record
\* stays without a guard.
C4_Witness ==
    \E t \in Tasks :
        /\ pc[t] = "done" /\ exit[t] = "cancelled"
        /\ pending[t]["write"] = 1 /\ owed[t]["write"] = 0

\* ------------------------------------------------------------------ C5
\* C5: the attempt record of a read()/write() call is out before the call
\* asks the underlying lock: while the call is about to poll, is suspended or
\* has just been granted, its record has been emitted, whatever the lock's
\* state; and it stays emitted when the attempt is never granted.
C5_AttemptBeforeSuspend ==
    \A t \in Tasks :
        /\ (via[t] = "trace" /\ pc[t] \in {"logged", "waiting", "granted"})
              => pending[t][kind[t]] = 1
        /\ (via[t] = "trace" /\ pc[t] = "logged") => ~HoldsToken(t)

\* The record was emitted while another task holds the exclusive token.
C5_Witness ==
    \E t, u \in Tasks :
        /\ pc[t] = "logged" /\ via[t] = "trace" /\ pending[t][kind[t]] = 1
        /\ writer[inner[t]] = u /\ u # t
        /\ trace = <<CallInfo(kind[t])>>

\* ------------------------------------------------------------------ C6
\* C6: the destructor prints the release line first and gives the token back
\* afterwards: from its grant until after its release line (and print_info)
\* the holder has its token, and no conflicting token is out.
C6_ReleaseAfterRecord ==
    \A t \in Tasks :
        (via[t] = "trace" /\ pc[t] \in {"granted", "holding", "loaded", "used",
                                        "released", "attributed"}) =>
            LET l == inner[t] IN
            /\ TokenKind(l, t) = kind[t]
            /\ kind[t] = "write" => readers[l] = {}
            /\ kind[t] = "read" => writer[l] = NoTask

\* The release line of a write guard is out, the token still held, and another
\* task is waiting for it.
C6_Witness ==
    \E t, u \in Tasks :
        /\ pc[t] = "released" /\ kind[t] = "write" /\ writer[inner[t]] = t
        /\ trace = <<ReleaseLine("write", 0)>>
        /\ pc[u] = "waiting" /\ inner[u] = inner[t]

\* ------------------------------------------------------------------ C7
\* C7: the duration in a release line is the clock at the destruction minus
\* the guard's start_time; it is not negative, it is at least the time since
\* the guard was returned to its holder, and it holds nothing of the time
\* before the token was granted (the wait since the attempt record).
C7_HeldDuration ==
    [][\A t \in Tasks :
          (Undropped(t) /\ pc'[t] = "released") =>
              LET d == trace'[1].dur IN
              /\ d = now - startTime[t]
              /\ d >= 0
              /\ d >= now - ghost[t].heldAt
              /\ d <= now - ghost[t].grantAt
              /\ ghost[t].attemptAt <= ghost[t].grantAt]_vars

\* A guard that waited one tick for its token and was held one tick reports 1.
C7_Witness ==
    \E t \in Tasks :
        /\ pc[t] = "released" /\ now = 2
        /\ ghost[t].attemptAt = 0 /\ ghost[t].grantAt = 1 /\ startTime[t] = 1
        /\ trace = <<ReleaseLine(kind[t], 1)>>

\* ------------------------------------------------------------------ C8
\* C8: deref_mut of the instrumented lock returns only to the sole owner of
\* the underlying lock, and then no token and no guard of that lock is out;
\* the call panics (a task with no guard ends by a panic) exactly when
\* another owner is alive.
C8_DerefMutSoleOwner ==
    /\ [](\A t \in Tasks :
            pc[t] = "mutref" =>
                LET l == inner[t] IN
                /\ StrongCount(l) = 1
                /\ readers[l] = {} /\ writer[l] = NoTask /\ queue[l] = <<>>
                /\ ReadGuards(l) = {} /\ WriteGuards(l) = {})
    /\ [][\A t \in Tasks :
            /\ (pc[t] = "idle" /\ pc'[t] = "mutref") => StrongCount(inner[t]) = 1
            /\ (pc[t] = "idle" /\ pc'[t] = "done" /\ exit'[t] = "panic")
                  => StrongCount(inner[t]) > 1]_vars

\* Of two views built with from(), one panicked in deref_mut while the lock
\* had other owners; the other, by now the sole owner, got its reference.
C8_Witness ==
    \E t, u \in Tasks :
        /\ handle[t] = "from" /\ handle[u] = "from" /\ nAcq = 0
        /\ pc[t] = "done" /\ exit[t] = "panic"
        /\ pc[u] = "mutref" /\ ~origAlive

\* ------------------------------------------------------------------ C9
\* C9: views built with from() and the original Arc are one lock: a shared
\* read through any of them sees every increment made through any of them,
\* and an exclusive token taken through one excludes every token taken
\* through another.
SharedLocks == {SharedLock} \cup {inner[t] : t \in SharedHandles}

RECURSIVE SumStores(_)
SumStores(S) ==
    IF S = {} THEN 0
    ELSE LET l == CHOOSE x \in S : TRUE IN stores[l] + SumStores(S \ {l})

C9_FromShares ==
    /\ \A t \in SharedHandles :
          (pc[t] = "used" /\ kind[t] = "read")
              => observed[t] = InitValue + SumStores(SharedLocks)
    /\ \A t, u \in SharedHandles :
          (t # u /\ \E l \in Locks : writer[l] = t) => ~HoldsToken(u)

\* An increment made under the timed write guard of a view is read through
\* the original lock.
C9_Witness ==
    \E t, u \in Tasks :
        /\ handle[t] = "from" /\ handle[u] = "raw" /\ nAcq = 2
        /\ trace = <<PrintInfo("write")>>
        /\ pc[u] = "used" /\ kind[u] = "read" /\ observed[u] = InitValue + 1

Active(t, l) ==
    inner[t] = l /\ pc[t] \in {"waiting", "granted", "holding", "loaded", "used",
                               "released", "attributed"}

\* C11: readers do not block each other: a read() that finds nothing queued
\* and no exclusive request in progress on its lock is granted at its first
\* poll, however many shared guards are out, so it never waits for another
\* reader's release; and each reader has its own records: its attempt record
\* is used up by its own guard and its own release line is the one still owed.
C11_ConcurrentReaders ==
    /\ [][\A t \in Tasks :
            (/\ pc[t] = "logged" /\ via[t] = "trace" /\ kind[t] = "read"
             /\ Steps(t)
             /\ queue[inner[t]] = <<>>
             /\ \A u \in Tasks \ {t} : Active(u, inner[t]) => kind[u] = "read")
                => pc'[t] = "granted"]_vars
    /\ [](\A t \in Tasks :
            (TimedGuard(t) /\ kind[t] = "read") =>
                /\ pending[t]["read"] = 0
                /\ owed[t]["read"] = IF Undropped(t) THEN 1 ELSE 0)

\* Two tasks hold a timed read guard of the same lock at the same time, each
\* with its release line still to come.
C11_Witness ==
    \E t, u \in Tasks :
        /\ t # u /\ inner[t] = inner[u]
        /\ t \in ReadGuards(inner[t]) /\ u \in ReadGuards(inner[u])
        /\ pc[t] = "holding" /\ pc[u] = "holding"
        /\ owed[t]["read"] = 1 /\ owed[u]["read"] = 1

\* ----------------------------------------------------------------- C12
\* Task u writes a line to stdout in this step: the attempt line of
\* log_call_info!, a release line, or the line of print_info().
Emits(u) ==
    /\ pc'[u] # pc[u]
    /\ pc'[u] \in {"logged", "released", "attributed"}

\* C12: a release line is followed immediately by the call-site line that
\* attributes it: while a task stands between its release line and its
\* print_info() line, the only line written to stdout is that print_info()
\* line, whatever the other tasks do.
C12_ReleaseThenCallSite ==
    [][\A t, u \in Tasks : (pc[t] = "released" /\ Emits(u)) => u = t]_vars

\* ----------------------------------------------------------------- C13
\* stdout that can fail. println! panics when the write to stdout fails
\* ("failed printing to stdout"), so a failing sink shows as a panic at the
\* println! that met it.

\* log_call_info!() at line 40 / 49 meets a failing stdout: read() / write()
\* unwinds at line 15 before the underlying lock is asked, and the panic ends
\* the task.
AttemptSinkFails(t, k) ==
    /\ pc[t] = "idle" /\ Instrumented(t) /\ nAcq < MaxAcquires
    /\ nAcq' = nAcq + 1
    /\ pc' = [pc EXCEPT ![t] = "done"]
    /\ exit' = [exit EXCEPT ![t] = "panic"]
    /\ alive' = [alive EXCEPT ![t] = FALSE]
    /\ UNCHANGED <<kind, via, startTime, tmp, observed, stores, now, ghost>>
    /\ UNCHANGED <<handle, inner, origAlive>>
    /\ UNCHANGED <<lockVars, logVars>>

\* A panic inside drop() of a timed guard whose scope ended by path e. While
\* the scope is already unwinding it is a second panic and the process
\* aborts: every task stops where it is. Otherwise drop() unwinds, the fields
\* of the guard are still dropped, which gives the token back, and the panic
\* ends the task.
PanicInDrop(t, e) ==
    IF e = "panic"
    THEN /\ pc' = [u \in Tasks |-> "done"]
         /\ exit' = [u \in Tasks |-> "aborted"]
         /\ alive' = [u \in Tasks |-> FALSE]
         /\ UNCHANGED <<kind, via, startTime, observed, ghost, readers, writer>>
    ELSE /\ Unhold(inner[t], t)
         /\ EndScope(t, "panic")

\* The println! of the release line (line 85 / 112) meets a failing stdout.
DropSinkFails(t, e) ==
    /\ via[t] = "trace" /\ CanLeave(t, e)
    /\ PanicInDrop(t, e)
    /\ UNCHANGED <<handle, inner, origAlive, nAcq, tmp, value, queue, now, stores>>
    /\ UNCHANGED logVars

\* The println! of print_info() (line 139) meets a failing stdout.
PrintInfoSinkFails(t) ==
    /\ pc[t] = "released"
    /\ PanicInDrop(t, exit[t])
    /\ UNCHANGED <<handle, inner, origAlive, nAcq, tmp, value, queue, now, stores>>
    /\ UNCHANGED logVars

NextSink ==
    \/ Next
    \/ \E t \in Tasks, k \in Kinds : AttemptSinkFails(t, k)
    \/ \E t \in Tasks, e \in ExitPaths : DropSinkFails(t, e)
    \/ \E t \in Tasks : PrintInfoSinkFails(t)

\* The lock, the guards and the records, with a stdout that may fail at any
\* write.
SpecSink == Init /\ [][NextSink]_vars

\* C13: a failing sink is not fatal: a call of read() / write() never ends
\* the calling task but goes on to the underlying lock, the end of a scope
\* always passes through the whole destructor, and when the scope is over the
\* token is back with the lock.
C13_SinkFailureNonFatal ==
    [][\A t \in Tasks :
          /\ (pc[t] = "idle" /\ nAcq' = nAcq + 1) => pc'[t] # "done"
          /\ Undropped(t) => pc'[t] # "done"
          /\ pc[t] = "released" => pc'[t] \in {"released", "attributed"}
          /\ (TimedGuard(t) /\ ~TimedGuard(t)') => ~HoldsToken(t)']_vars

\* ----------------------------------------------------------------- C14
\* The tasks holding a token of kind k of the underlying lock l.
Tokens(l, k) ==
    IF k = "read" THEN readers[l] ELSE {t \in Tasks : writer[l] = t}

\* The live timed guards of kind k on lock l.
Guards(l, k) == IF k = "read" THEN ReadGuards(l) ELSE WriteGuards(l)

\* The calls of read() / write() on lock l whose await has returned the token
\* and which have not yet built their timed guard (between line 41 and 42,
\* 50 and 51).
Unwrapped(l, k) ==
    {t \in Tasks : via[t] = "trace" /\ pc[t] = "granted" /\ inner[t] = l /\ kind[t] = k}

\* C14 as stated: on every lock there are at all times as many live shared
\* (exclusive) timed guards as shared (exclusive) tokens granted by the
\* underlying lock.
C14_GuardsEqualTokens ==
    \A l \in Locks, k \in Kinds :
        Cardinality(Guards(l, k)) = Cardinality(Tokens(l, k))

\* C14, amended: the lock is idle, held by n >= 1 shared tokens or held by one
\* exclusive token; the tokens of a kind granted to calls of read() / write()
\* are exactly those of the live timed guards of that kind and of the calls
\* granted and not yet wrapped; and the first poll of read() / write() is
\* granted in exactly the states in which the underlying lock grants that
\* request (nothing queued and the request compatible with the tokens out),
\* a suspended call being resumed only as the head of the queue with a
\* compatible request.
C14_Refinement ==
    /\ [](\A l \in Locks :
            /\ ~(writer[l] # NoTask /\ readers[l] # {})
            /\ \A k \in Kinds :
                 /\ Guards(l, k) \cup Unwrapped(l, k)
                        = {t \in Tokens(l, k) : via[t] = "trace"}
                 /\ Guards(l, k) \cap Unwrapped(l, k) = {})
    /\ [][\A t \in Tasks :
            /\ (pc[t] = "logged" /\ via[t] = "trace" /\ Steps(t)) =>
                 (pc'[t] = "granted"
                    <=> (queue[inner[t]] = <<>> /\ Compatible(inner[t], kind[t])))
            /\ (pc[t] = "waiting" /\ via[t] = "trace" /\ pc'[t] = "granted") =>
                 /\ Head(queue[inner[t]]) = t
                 /\ Compatible(inner[t], kind[t])]_vars

\* A write() waits in the queue behind a live timed read guard, whose token is
\* the only one out.
C14_Witness ==
    \E t, w \in Tasks :
        /\ ReadGuards(SharedLock) = {t} /\ Tokens(SharedLock, "read") = {t}
        /\ pc[w] = "waiting" /\ via[w] = "trace" /\ kind[w] = "write"
        /\ inner[w] = SharedLock /\ queue[SharedLock] = <<w>>

\* ----------------------------------------------------------------- C15
\* The source location of the caller of read() / write(): where the test
\* calls them.
CallSite(k) == IF k = "read" THEN SiteRead ELSE SiteWrite

\* C15: the attempt record of a call of read() / write() carries the source
\* location of the code that called it, not a location inside the wrapper or
\* the recorder.
C15_CallerLocation ==
    [][\A t \in Tasks :
          (pc[t] = "idle" /\ pc'[t] = "logged") =>
              /\ Len(trace') = 1
              /\ trace'[1].line = "called"
              /\ trace'[1].loc = CallSite(kind'[t])]_vars

\* ----------------------------------------------------------------- C16
\* C16: the release line says the kind of the guard destroyed: the destructor
\* of a LoggingRwLockReadGuard prints "Read lock released", that of a
\* LoggingRwLockWriteGuard "Write lock released", and it is counted as a
\* release of that kind and of no other; conversely a release line of a kind
\* is printed only by the destructor of a guard of that kind.
C16_ReleaseKind ==
    [][\A t \in Tasks :
          (Emits(t) /\ pc'[t] = "released") =>
              /\ TimedGuard(t)
              /\ Len(trace') = 1
              /\ trace'[1].line =
                    (IF t \in Guards(inner[t], "read") THEN "ReadReleased"
                     ELSE "WriteReleased")
              /\ \A k \in Kinds :
                    owed'[t][k] = owed[t][k] - (IF t \in Guards(inner[t], k) THEN 1 ELSE 0)]_vars

\* The destructor of a write guard, run by an early return, has just printed
\* "Write lock released" while a read() of another task waits.
C16_Witness ==
    \E t, u \in Tasks :
        /\ pc[t] = "released" /\ exit[t] = "return"
        /\ t \in Guards(inner[t], "write")
        /\ Len(trace) = 1 /\ trace[1].line = "WriteReleased"
        /\ pc[u] = "waiting" /\ kind[u] = "read"

\* ----------------------------------------------------------------- C17
\* C17: for each task and each kind, release lines never outnumber the guards
\* constructed, which never outnumber the attempt records: the attempt
\* records not yet turned into a guard and the guards not yet released are
\* never negative.  As this holds after every step, each release line of a
\* task comes after an attempt record of the same kind of that task.
C17_RecordCounts ==
    \A t \in Tasks : \A k \in Kinds :
        /\ pending[t][k] >= 0
        /\ owed[t][k] >= 0

\* One task has printed the release line of its write guard; the other's
\* read() was cancelled while it waited, so its attempt record stays without
\* a guard and without a release line.
C17_Witness ==
    \E t, u \in Tasks :
        /\ pc[t] = "attributed" /\ kind[t] = "write" /\ via[t] = "trace"
        /\ owed[t]["write"] = 0 /\ pending[t]["write"] = 0
        /\ pc[u] = "done" /\ exit[u] = "cancelled"
        /\ pending[u]["read"] = 1 /\ owed[u]["read"] = 0

\* ----------------------------------------------------------------- C18
\* The tasks of tests::test_spawn's kind: each owns a view built with from()
\* on the one lock and uses it through read() and write() only; scopes end
\* by any path and waits can be cancelled.
NextCore ==
    \/ \E t \in Tasks, k \in Kinds : Attempt(t, k)
    \/ \E t \in Tasks : Poll(t)
    \/ \E t \in Tasks : Wake(t)
    \/ \E t \in Tasks : Construct(t)
    \/ \E t \in Tasks : ReadValue(t)
    \/ \E t \in Tasks : Load(t)
    \/ \E t \in Tasks : Store(t)
    \/ \E t \in Tasks, e \in ExitPaths : DropReleaseLine(t, e)
    \/ \E t \in Tasks : DropPrintInfo(t)
    \/ \E t \in Tasks : DropInnerGuard(t)
    \/ \E t \in Tasks : CancelWaiting(t)
    \/ \E t \in Tasks : Finish(t)

SpecCore == InitTime /\ [][NextCore]_vars

\* What a task does once it has called read() / write(), left to itself: it
\* is polled, resumed when the lock grants its request, runs its scope and its
\* destructor.  Starting a call, finishing and being cancelled are up to the
\* program.
Progress(t) ==
    \/ Poll(t)
    \/ Wake(t)
    \/ Construct(t)
    \/ ReadValue(t)
    \/ Load(t)
    \/ Store(t)
    \/ \E e \in ExitPaths : DropReleaseLine(t, e)
    \/ DropPrintInfo(t)
    \/ DropInnerGuard(t)

\* The runtime keeps polling every runnable task and the FIFO queue of the
\* lock grants the request at its head as soon as it is compatible: a task
\* whose next step stays possible takes it, so every holder leaves its scope.
SpecLive == SpecCore /\ \A t \in Tasks : WF_vars(Progress(t))

\* C18: with fair grants and holders that leave their scopes, every call of
\* read() / write() is eventually granted unless it is cancelled, every
\* granted call eventually prints its release line, and once every task has
\* finished the lock is idle and every guard constructed has its release
\* line and its call-site line.
C18_Progress ==
    /\ \A t \in Tasks :
          (pc[t] = "logged") ~> (pc[t] = "granted" \/ exit[t] = "cancelled")
    /\ \A t \in Tasks : (pc[t] = "granted") ~> (pc[t] = "released")
    /\ []((\A t \in Tasks : pc[t] = "done") =>
            /\ \A l \in Locks : readers[l] = {} /\ writer[l] = NoTask /\ queue[l] = <<>>
            /\ \A t \in Tasks : \A k \in Kinds : owed[t][k] = 0 /\ unsited[t][k] = 0)

\* Every task has finished normally after all the calls of the budget were
\* granted, one of them a write() whose store went through.
C18_Witness ==
    /\ \A t \in Tasks : pc[t] = "done" /\ exit[t] = "ok"
    /\ nAcq = MaxAcquires
    /\ stores[SharedLock] = 1
    /\ \A t \in Tasks : \A k \in Kinds : pending[t][k] = 0

\* ----------------------------------------------------------------- C19
\* C19: a panic in the scope of a holder does not poison the lock: a task
\* that has ended, by a panic as by any other path, holds no token and waits
\* in no queue, and a read() / write() polled when every other task has ended
\* is granted at once.
C19_NoPoisoning ==
    /\ [](\A t \in Tasks :
            pc[t] = "done" =>
                /\ ~HoldsToken(t)
                /\ \A l \in Locks : \A i \in 1..Len(queue[l]) : queue[l][i] # t)
    /\ [][\A t \in Tasks :
            (/\ pc[t] = "logged" /\ Steps(t)
             /\ \A u \in Tasks \ {t} : pc[u] = "done")
                => pc'[t] = "granted"]_vars

\* A task panicked while it held a timed guard and has ended; another task
\* now holds the write guard of the same lock and has stored through it.
C19_Witness ==
    \E t, u \in Tasks :
        /\ pc[t] = "done" /\ exit[t] = "panic"
        /\ u \in WriteGuards(inner[t]) /\ pc[u] = "used"
        /\ stores[inner[t]] = 1

\* ----------------------------------------------------------------- C20
\* C20: an acquisition made on the underlying lock itself, through the
\* wrapper's Deref or through the original Arc, writes nothing to stdout and
\* counts in no record balance, from its request to the drop of its guard;
\* its tokens are tokens of the same lock as those of the timed guards: an
\* exclusive token, whoever holds it, is never out together with any other
\* token, so it excludes, and is excluded by, the timed guards.
C20_PassThrough ==
    /\ [][\A t \in Tasks :
            (Steps(t) /\ via[t] = "raw" /\ via'[t] = "raw") => logVars' = logVars]_vars
    /\ [](\A l \in Locks :
            /\ writer[l] # NoTask => readers[l] = {}
            /\ \A t \in Tasks :
                 (via[t] = "raw" /\ TokenKind(l, t) = "write") =>
                     Guards(l, "read") \cup Guards(l, "write") = {}
            /\ \A t \in Tasks :
                 (via[t] = "raw" /\ TokenKind(l, t) = "read") => Guards(l, "write") = {})

\* A write taken through the Deref of a view built with from() waits in the
\* queue while another task holds a timed read guard of the same lock, whose
\* attempt record is the only line on stdout.
C20_Witness ==
    \E t, u \in Tasks :
        /\ pc[u] = "waiting" /\ via[u] = "raw" /\ kind[u] = "write"
        /\ handle[u] = "from"
        /\ t \in Guards(inner[u], "read") /\ pc[t] = "holding"
        /\ trace = <<CallInfo("read")>>

====
